---- MODULE Spec2Model ----
(***************************************************************************)
(* Model of the Kunkin KP184 electronic-load driver (package kunkin):      *)
(* the frame codec (_crc, _raise_checksum), the guarded request/response   *)
(* transactions of Kp184 (_modbus_read, _modbus_write, get_status_block),  *)
(* the scoped lifecycle of the device handle (Kp184.__enter__/__exit__)    *)
(* and the BackgroundMonitor (start, worker loop, bounded retry, release). *)
(*                                                                         *)
(* Frames are sequences of bytes (0..255).  Scaled quantities are kept in  *)
(* the integer unit of the register (millivolts, milliamps).  Time is a    *)
(* discrete clock; it passes only while a thread is blocked (serial read,  *)
(* lock wait, sleep): starting the thread, taking a free lock and the      *)
(* statements between two blocking calls take no time, and time.sleep      *)
(* returns at its deadline.                                                *)
(*                                                                         *)
(* Specifications: Spec (foreground and worker on a noisy link),           *)
(* SpecTimed (the worker's schedule on a unit clock), SpecSessions         *)
(* (successive monitor scopes), SpecReaders (_refresh statement by         *)
(* statement with a reading body), SpecLive (release under fairness),      *)
(* SpecLate (a device answering after the read timeout) and SpecCodec      *)
(* (the codec applied to byte sequences).                                  *)
(***************************************************************************)
EXTENDS Integers, Sequences, FiniteSets, TLC

(***************************************************************************)
(* Bit arithmetic on naturals                                              *)
(***************************************************************************)
\* a ^ b and a & b; functions, so that arguments are values
XorN[a \in Nat, b \in Nat] ==
    IF a = 0 THEN b
    ELSE IF b = 0 THEN a
    ELSE (((a % 2) + (b % 2)) % 2) + 2 * XorN[a \div 2, b \div 2]

AndN[a \in Nat, b \in Nat] ==
    IF a = 0 \/ b = 0 THEN 0
    ELSE ((a % 2) * (b % 2)) + 2 * AndN[a \div 2, b \div 2]

\* int.to_bytes(length=n, byteorder="big")
RECURSIVE ToBytesBig(_, _)
ToBytesBig(v, n) ==
    IF n = 0 THEN <<>> ELSE Append(ToBytesBig(v \div 256, n - 1), v % 256)

\* int.from_bytes(bytes, byteorder="big")
RECURSIVE FromBytesBig(_)
FromBytesBig(s) ==
    IF Len(s) = 0 THEN 0
    ELSE 256 * FromBytesBig(SubSeq(s, 1, Len(s) - 1)) + s[Len(s)]

\* Python slice s[i:j] for 0 <= i, 0 <= j (0-based, end exclusive, clipped)
Slice(s, i, j) ==
    LET hi == IF j > Len(s) THEN Len(s) ELSE j
    IN  IF i >= hi THEN <<>> ELSE SubSeq(s, i + 1, hi)

\* Python slices s[-2:] and s[:-2]
Last2(s) == IF Len(s) <= 2 THEN s ELSE SubSeq(s, Len(s) - 1, Len(s))
DropLast2(s) == IF Len(s) <= 2 THEN <<>> ELSE SubSeq(s, 1, Len(s) - 2)

(***************************************************************************)
(* Kp184._crc: CRC-16, init 0xFFFF, reflected polynomial 0xA001,           *)
(* returned as two little-endian bytes                                     *)
(***************************************************************************)
CrcInit == 65535
CrcPoly == 40961

\* the body of "for i in range(8)": one shift, conditional xor
CrcShift[result \in Nat] ==
    IF result % 2 = 1 THEN XorN[result \div 2, CrcPoly] ELSE result \div 2

\* result ^= byt, then the eight shifts
CrcByte[result \in Nat, byt \in Nat] ==
    CrcShift[CrcShift[CrcShift[CrcShift[
    CrcShift[CrcShift[CrcShift[CrcShift[XorN[result, byt]]]]]]]]]

_crc(byts) ==
    LET run[k \in 0..Len(byts)] ==
            IF k = 0 THEN CrcInit ELSE CrcByte[run[k - 1], byts[k]]
        result == run[Len(byts)]
    IN  <<result % 256, result \div 256>>

\* only the first of the two CRC bytes is compared
_raise_checksum_low(response) ==
    \/ Len(response) < 2
    \/ Last2(response)[1] # _crc(DropLast2(response))[1]

\* Kp184._raise_checksum: TRUE when ChecksumError is raised
_raise_checksum(response) ==
    Last2(response) # _crc(DropLast2(response))

(***************************************************************************)
(* Register addresses used by the accessors of Kp184.__init__              *)
(***************************************************************************)
REG_OUTPUT == 270    \* 0x010e  set_output_on / is_output_on
REG_MODE == 272      \* 0x0110  set_mode / get_mode
REG_CV == 274        \* 0x0112  set_cv_V / get_cv_V
REG_VOLTAGE == 290   \* 0x0122  measure_voltage
REG_STATUS == 769    \* 0x301   long status block

MODES == <<"CV", "CC", "CR", "CW">>
BUZZ_MODES == <<"ONE", "LAST", "LEVEL">>

\* Python list indexing lst[i] with a negative index counting from the end
PyIndex(lst, i) == IF i < 0 THEN lst[Len(lst) + i + 1] ELSE lst[i + 1]

(***************************************************************************)
(* Request frames, as built by the three *_unsafe methods                  *)
(***************************************************************************)
ReadMsg(address) ==
    LET msg == <<1, 3>> \o ToBytesBig(address, 2) \o <<0, 4>>
    IN  msg \o _crc(msg)

WriteMsg(address, value) ==
    LET msg == <<1, 6>> \o ToBytesBig(address, 2) \o <<0, 1, 4>>
                 \o ToBytesBig(value, 4)
    IN  msg \o _crc(msg)

StatusMsg ==
    LET msg == <<1, 3>> \o ToBytesBig(REG_STATUS, 2) \o <<0, 0>>
    IN  msg \o _crc(msg)

(***************************************************************************)
(* What the *_unsafe methods do with the bytes serial.read returned.       *)
(* Each yields [raised, value]: raised is "none" or the exception.         *)
(***************************************************************************)
\* the readback value is not compared
WriteReadbackNoValue(address, value, readback) ==
    IF _raise_checksum(readback) THEN "ChecksumError"
    ELSE IF FromBytesBig(Slice(readback, 2, 4)) # address THEN "ChecksumError"
    ELSE "none"

\* _modbus_write_unsafe, lines 181-191
WriteReadback(address, value, readback) ==
    IF _raise_checksum(readback) THEN "ChecksumError"
    ELSE IF FromBytesBig(Slice(readback, 2, 4)) # address THEN "ChecksumError"
    ELSE IF FromBytesBig(Slice(readback, 4, 6)) # AndN[value, 65535]
         THEN "ChecksumError"
    ELSE "none"

\* _modbus_read_unsafe, lines 148-163
ReadResult(address, response) ==
    IF _raise_checksum(response) THEN [raised |-> "ChecksumError", value |-> -1]
    ELSE IF Len(response) < 3 THEN [raised |-> "IndexError", value |-> -1]
    ELSE LET payload_length == response[3]
             payload == Slice(response, 3, 3 + payload_length)
             cut == IF address = REG_MODE THEN Slice(payload, 1, Len(payload))
                    ELSE payload
         IN  [raised |-> "none", value |-> FromBytesBig(cut)]

\* bit i (0 = least significant) of a byte
Bit(byt, i) == (byt \div (2 ^ i)) % 2

NoBlock ==
    [Output_ON |-> FALSE, Sense |-> "None", Mode |-> "None", Battery |-> FALSE,
     Voltage |-> -1, Current |-> -1, AH |-> -1, WH |-> -1]

\* get_status_block_unsafe, lines 113-134, the fields kept by the model.
\* Voltage and Current are kept in milli-units, AH and WH in the raw
\* ampere-/watt-seconds*1000 of the frame (the code divides by 1e3, 3600e3).
StatusDecode(response) ==
    [Output_ON |-> Bit(response[4], 0) = 1,
     Sense |-> IF AndN[response[4], 8] # 0 THEN "Remote" ELSE "Local",
     Mode |-> PyIndex(MODES, 2 * Bit(response[4], 1) + Bit(response[4], 2) - 1),
     Battery |-> AndN[response[5], 4] # 0,
     Voltage |-> FromBytesBig(Slice(response, 5, 8)),
     Current |-> FromBytesBig(Slice(response, 8, 11)),
     AH |-> FromBytesBig(Slice(response, 27, 31)),
     WH |-> FromBytesBig(Slice(response, 31, 35))]

\* the status block is decoded without the checksum being verified
StatusResultUnchecked(response) ==
    IF Len(response) < 24 THEN [raised |-> "ChecksumError", block |-> NoBlock]
    ELSE IF response[24] >= Len(BUZZ_MODES)
         THEN [raised |-> "IndexError", block |-> NoBlock]
    ELSE [raised |-> "none", block |-> StatusDecode(response)]

\* get_status_block_unsafe, lines 108-134
StatusResult(response) ==
    IF _raise_checksum(response) THEN [raised |-> "ChecksumError", block |-> NoBlock]
    ELSE IF Len(response) < 24 THEN [raised |-> "IndexError", block |-> NoBlock]
    ELSE IF response[24] >= Len(BUZZ_MODES)
         THEN [raised |-> "IndexError", block |-> NoBlock]
    ELSE [raised |-> "none", block |-> StatusDecode(response)]

(***************************************************************************)
(* The device at the other end of the link: what serial.read returns for   *)
(* a request.  A reply is intact ("ok"), has a damaged CRC ("badcrc"),     *)
(* is missing because the read timed out ("empty"), or, for a write,       *)
(* is a well-formed acknowledgement echoing another register or value.     *)
(***************************************************************************)
Corrupt(frame) == [frame EXCEPT ![Len(frame)] = XorN[@, 1]]

Seal(body, kind) ==
    IF kind = "empty" THEN <<>>
    ELSE IF kind = "badcrc" THEN Corrupt(body \o _crc(body))
    ELSE body \o _crc(body)

AckKinds == {"ok", "badaddr", "badval", "badcrc", "empty"}
BadKinds == {"badcrc", "empty"}

DeviceAck(msg, kind) ==
    LET address == FromBytesBig(Slice(msg, 2, 4))
        value == FromBytesBig(Slice(msg, 7, 11))
        echoA == IF kind = "badaddr" THEN (address + 1) % 65536 ELSE address
        echoV == IF kind = "badval" THEN ((value % 65536) + 1) % 65536
                 ELSE value % 65536
    IN  Seal(<<1, 6>> \o ToBytesBig(echoA, 2) \o ToBytesBig(echoV, 2), kind)

DeviceReadReply(msg, kind, val) ==
    Seal(<<1, 3, 4>> \o ToBytesBig(val, 4), kind)

DeviceStatusReply(msg, kind, smp) ==
    Seal(<<1, 3, 32, smp.flags, 0>>
         \o ToBytesBig(smp.mV, 3) \o ToBytesBig(smp.mA, 3) \o ToBytesBig(0, 3)
         \o <<0, 10, 0, 10>> \o <<0, 0, 0>> \o <<0, 0, 0>> \o <<0, 0, 0>>
         \o ToBytesBig(smp.mAs, 4) \o ToBytesBig(smp.mWs, 4), kind)

\* the readings the simulated device reports
DeviceSamples ==
    <<[flags |-> 3, mV |-> 3700, mA |-> 0, mAs |-> 0, mWs |-> 0],
      [flags |-> 5, mV |-> 3000, mA |-> 9000, mAs |-> 7200, mWs |-> 90000]>>
ReadValues == {3700}

\* the direct register operations the foreground issues
WriteOps ==
    {[fn |-> "write", address |-> REG_OUTPUT, value |-> 1],
     [fn |-> "write", address |-> REG_OUTPUT, value |-> 0],
     [fn |-> "write", address |-> REG_CV, value |-> 130000]}
ReadOps ==
    {[fn |-> "read", address |-> REG_VOLTAGE, value |-> 0],
     [fn |-> "read", address |-> REG_MODE, value |-> 0]}
StatusOp == [fn |-> "status", address |-> REG_STATUS, value |-> 0]
DirectOps == WriteOps \cup ReadOps \cup {StatusOp}

\* the request frame of an operation
Msg(o) ==
    IF o.fn = "write" THEN WriteMsg(o.address, o.value)
    ELSE IF o.fn = "read" THEN ReadMsg(o.address)
    ELSE StatusMsg

\* the replies the device may give to operation o: [kind, val]
Replies(o) ==
    IF o.fn = "write" THEN {[kind |-> k, val |-> 0] : k \in AckKinds}
    ELSE IF o.fn = "read"
    THEN {[kind |-> "ok", val |-> v] : v \in ReadValues}
         \cup {[kind |-> k, val |-> 0] : k \in BadKinds}
    ELSE {[kind |-> "ok", val |-> i] : i \in 1..Len(DeviceSamples)}
         \cup {[kind |-> k, val |-> 1] : k \in BadKinds}

\* on a link without noise every reply is intact
CleanReplies(o) == {r \in Replies(o) : r.kind = "ok"}

\* the bytes of reply r to operation o
DeviceReply(o, r) ==
    IF o.fn = "write" THEN DeviceAck(Msg(o), r.kind)
    ELSE IF o.fn = "read" THEN DeviceReadReply(Msg(o), r.kind, r.val)
    ELSE DeviceStatusReply(Msg(o), r.kind, DeviceSamples[r.val])

\* a device that answers in time or only after the read has timed out
\* ("late"); its readings change from one request to the next
SlowValues == {3700, 3000}
SlowReplies(o) ==
    IF o.fn = "read"
    THEN {[kind |-> k, val |-> v] : k \in {"ok", "late"}, v \in SlowValues}
    ELSE IF o.fn = "write" THEN {[kind |-> k, val |-> 0] : k \in {"ok", "late"}}
    ELSE {[kind |-> k, val |-> i] : k \in {"ok", "late"},
                                    i \in 1..Len(DeviceSamples)}

\* the number of bytes each *_unsafe method asks serial.read for
ReadLen(o) ==
    IF o.fn = "write" THEN 8 ELSE IF o.fn = "read" THEN 9 ELSE 37

\* s[:n] and s[n:]
Take(s, n) == SubSeq(s, 1, IF n < Len(s) THEN n ELSE Len(s))
Drop(s, n) == SubSeq(s, n + 1, Len(s))

\* the reply frames, tabulated once
ReplyBytes ==
    [o \in DirectOps |-> [r \in Replies(o) \cup SlowReplies(o) |->
        DeviceReply(o, r)]]

\* the exchanges, tabulated once: request built, reply produced, reply parsed
WriteExchange ==
    [o \in WriteOps |-> [r \in Replies(o) |->
        WriteReadback(o.address, o.value, DeviceReply(o, r))]]
ReadExchange ==
    [o \in ReadOps |-> [r \in Replies(o) |->
        ReadResult(o.address, DeviceReply(o, r))]]
StatusExchange ==
    [r \in Replies(StatusOp) |-> StatusResult(DeviceReply(StatusOp, r))]

(***************************************************************************)
(* Bounds of the model                                                     *)
(***************************************************************************)
Interval == 2        \* interval_s, in clock ticks
MaxTicks == 3        \* loop iterations of the worker that are explored
MaxTime == 7         \* the clock of the timed specification stops here
MaxStart == 1        \* latest instant at which the worker is started
MaxSessions == 2     \* __enter__ calls on monitors that are explored

\* stop_after_attempt(10) on BackgroundMonitor._refresh
MaxAttempts == 10

(***************************************************************************)
(* State                                                                   *)
(***************************************************************************)
VARIABLES
    serial,        \* Kp184.serial: "None", "open", "closed"
    serial_lock,   \* Kp184.serial_lock: "free" or the thread holding it
    wire,          \* transactions on the link: request written, response
                   \*   not read yet: [by, op, reply]
    fpc,           \* foreground thread: "new", "body", "acq", "rd", "join", "done"
    fcall,         \* the call the foreground is in: [ctx, fn, address, value]
    fattempt,      \* attempt number of the foreground's _refresh
    fresult,       \* how the last direct call ended: "none", "ok" or the exception
    fvalue,        \* the integer the last _modbus_read returned
    freply,        \* the reply the foreground's last transaction read
    fexc,          \* exception propagating out of the foreground's scopes
    frames,        \* request frames written by the current call
    mstate,        \* scope of the monitor: "idle", "entering", "running",
                   \*   "releasing", "released", "failed"
    log_file,      \* BackgroundMonitor.log_file given: TRUE / FALSE (None)
    alive,         \* BackgroundMonitor.alive
    index,         \* BackgroundMonitor.index (-1 is None)
    worker_start,  \* BackgroundMonitor.worker_start (-1 is None)
    next_sample_time, \* the deadline _interwaller computed last (-1: none yet)
    status_block,  \* BackgroundMonitor.status_block
    timestamp,     \* BackgroundMonitor.timestamp (-1 is None)
    voltage,       \* BackgroundMonitor.voltage (-1 is None)
    current,       \* BackgroundMonitor.current (-1 is None)
    log,           \* BackgroundMonitor.log is a csv writer: TRUE / FALSE (None)
    file,          \* the log destination: [exists, headers, rows]
    wpc,           \* worker thread: "none", "loop", "acq", "rd", "sleep",
                   \*   "done", "crashed"
    wattempt,      \* attempt number of the worker's _refresh
    now,           \* time.time()
    pollBegin,     \* when the worker's latest _refresh call began
    allShort,      \* every iteration so far took less than Interval
    iters,         \* loop iterations whose poll and record are done (that
                   \*   reached _interwaller)
    warned,        \* "cannot keep up" warnings logged
    rx,            \* bytes waiting in the input buffer of the serial port
    last,          \* the sample _refresh completed last: [timestamp, voltage,
                   \*   current, block]
    snap,          \* what a reader of the monitor's fields got: [got, last]
    sessions,      \* __enter__ calls made on monitors so far
    stopped,       \* __exit__ of the present monitor object has returned
    refreshes,     \* _refresh calls that returned in the present __enter__
    cpc,           \* the codec exercised alone: "off", "new", "sealed",
                   \*   "flipped", "checked", "checkedFlipped", "received",
                   \*   "decoded"
    cframe,        \* the bytes under verification
    cop,           \* the operation decoding cframe: [fn, address, value]
                   \*   with fn "none", "verify", "read", "write", "status"
    cres           \* its outcome: "none", "ok" or the exception

devVars == <<serial, serial_lock, wire, rx>>
fgVars == <<fpc, fcall, fattempt, fresult, fvalue, freply, fexc, frames>>
sampleVars == <<status_block, timestamp, voltage, current, last>>
monVars == <<mstate, log_file, alive, index, worker_start, log, file>>
workerVars == <<wpc, wattempt, next_sample_time, pollBegin, allShort, iters, warned>>
sessVars == <<sessions, stopped, refreshes>>
codecVars == <<cpc, cframe, cop, cres>>
auxVars == <<sessVars, snap, codecVars>>
vars == <<devVars, fgVars, sampleVars, monVars, workerVars, now, auxVars>>

NoReply == [kind |-> "none", val |-> 0]
NoOp == [fn |-> "none", address |-> 0, value |-> 0]
NoSample == [timestamp |-> -1, voltage |-> -1, current |-> -1, block |-> NoBlock]
NoSnap == [got |-> NoSample, last |-> NoSample, taken |-> FALSE]
NoCall == [ctx |-> "none", fn |-> "none", address |-> 0, value |-> 0]
Call(ctx, o) == [ctx |-> ctx, fn |-> o.fn, address |-> o.address, value |-> o.value]
OpOf(c) == [fn |-> c.fn, address |-> c.address, value |-> c.value]

\* Kp184.__init__ and BackgroundMonitor.__init__
InitDriver ==
    /\ serial = "None" /\ serial_lock = "free" /\ wire = {} /\ rx = <<>>
    /\ fpc = "new" /\ fcall = NoCall /\ fattempt = 0 /\ fresult = "none"
    /\ fvalue = -1 /\ freply = NoReply /\ fexc = "none" /\ frames = 0
    /\ mstate = "idle" /\ log_file = FALSE /\ alive = FALSE /\ index = -1
    /\ worker_start = -1 /\ next_sample_time = -1 /\ status_block = NoBlock
    /\ timestamp = -1 /\ voltage = -1 /\ current = -1 /\ log = FALSE
    /\ file = [exists |-> FALSE, headers |-> 0, rows |-> 0]
    /\ wpc = "none" /\ wattempt = 0 /\ now = 0
    /\ pollBegin = -1 /\ allShort = TRUE /\ iters = 0 /\ warned = 0
    /\ last = NoSample /\ snap = NoSnap
    /\ sessions = 0 /\ stopped = FALSE /\ refreshes = 0

Init ==
    /\ InitDriver
    /\ cpc = "off" /\ cframe = <<>> /\ cop = NoOp /\ cres = "none"

(***************************************************************************)
(* The guard: "with self.serial_lock" in _modbus_read, _modbus_write and   *)
(* get_status_block                                                        *)
(***************************************************************************)
\* the guard is never waited for
LockFreeAlways(lock) == TRUE
LockFree(lock) == lock = "free"

\* thread t acquires the guard and writes the request of operation o
\* (serial.write); the device will answer with one of the replies in rs
AcquireWrite(t, o, rs) ==
    /\ LockFree(serial_lock)
    /\ serial_lock' = t
    /\ \E r \in rs : wire' = wire \cup {[by |-> t, op |-> o, reply |-> r]}
    /\ UNCHANGED rx

\* the transaction thread t has on the link
Pending(t) == CHOOSE q \in wire : q.by = t

\* the bytes on hand when the serial.read of transaction q returns: what
\* was waiting in the input buffer, then the device's answer unless that
\* comes only after the timeout
Arrived(q) ==
    rx \o (IF q.reply.kind = "late" THEN <<>> ELSE ReplyBytes[q.op][q.reply])

\* what serial.read(n) returns to thread t
Received(t) == Take(Arrived(Pending(t)), ReadLen(Pending(t).op))

\* serial.read has returned to thread t; leaving the with block frees the
\* guard.  Bytes the read did not take, and an answer that comes after the
\* timeout, stay in the input buffer: nothing discards them.
ReadRelease(t) ==
    /\ \E q \in wire : q.by = t
    /\ wire' = {q \in wire : q.by # t}
    /\ rx' = Drop(Arrived(Pending(t)), ReadLen(Pending(t).op))
              \o (IF Pending(t).reply.kind = "late"
                  THEN ReplyBytes[Pending(t).op][Pending(t).reply] ELSE <<>>)
    /\ serial_lock' = "free"

\* what the *_unsafe method of thread t makes of the bytes it received
WriteOutcome(t) ==
    LET q == Pending(t)
    IN  IF q.reply \in Replies(q.op) /\ Received(t) = ReplyBytes[q.op][q.reply]
        THEN WriteExchange[q.op][q.reply]
        ELSE WriteReadback(q.op.address, q.op.value, Received(t))
ReadOutcome(t) ==
    LET q == Pending(t)
    IN  IF q.reply \in Replies(q.op) /\ Received(t) = ReplyBytes[q.op][q.reply]
        THEN ReadExchange[q.op][q.reply]
        ELSE ReadResult(q.op.address, Received(t))
StatusOutcome(t) ==
    LET q == Pending(t)
    IN  IF q.reply \in Replies(q.op) /\ Received(t) = ReplyBytes[q.op][q.reply]
        THEN StatusExchange[q.reply]
        ELSE StatusResult(Received(t))

\* one attempt too many
RetryAgainOffByOne(attempt) == attempt <= MaxAttempts
\* gives up one attempt early
RetryAgainShort(attempt) == attempt < MaxAttempts - 1

\* the retry decorator: after a ChecksumError on this attempt, try again?
RetryAgain(attempt) == attempt < MaxAttempts

\* BackgroundMonitor._refresh, lines 221-226, after a successful read
Publish(block) ==
    /\ status_block' = block
    /\ timestamp' = now
    /\ voltage' = block.Voltage
    /\ current' = block.Current
    /\ last' = [timestamp |-> now, voltage |-> block.Voltage,
                current |-> block.Current, block |-> block]

(***************************************************************************)
(* Foreground: the device handle                                           *)
(***************************************************************************)
\* Kp184.__enter__
Kp184Enter ==
    /\ fpc = "new"
    /\ serial' = "open"
    /\ fpc' = "body"
    /\ UNCHANGED <<serial_lock, wire, rx, fcall, fattempt, fresult, fvalue, freply, fexc,
                   frames, sampleVars, monVars, workerVars, now, auxVars>>

\* the body calls one accessor (set_*, get_*, measure_*) or get_status_block
CallDirect(o) ==
    /\ fpc = "body" /\ fexc = "none" /\ serial = "open"
    /\ fcall' = Call("body", o)
    /\ fpc' = "acq"
    /\ frames' = 0 /\ fresult' = "none" /\ fvalue' = -1 /\ freply' = NoReply
    /\ UNCHANGED <<devVars, fattempt, fexc, sampleVars, monVars, workerVars, now, auxVars>>

\* an exception (KeyboardInterrupt, a failed call not caught) leaves the body
BodyRaise ==
    /\ fpc = "body" /\ fexc = "none" /\ serial = "open"
    /\ fexc' = "Interrupt"
    /\ UNCHANGED <<devVars, fpc, fcall, fattempt, fresult, fvalue, freply, frames,
                   sampleVars, monVars, workerVars, now, auxVars>>

\* the foreground gets the guard and writes its request
FgAcquireWrite(noisy) ==
    /\ fpc = "acq"
    /\ AcquireWrite("fg", OpOf(fcall),
                    IF noisy THEN Replies(OpOf(fcall)) ELSE CleanReplies(OpOf(fcall)))
    /\ frames' = frames + 1
    /\ fpc' = "rd"
    /\ UNCHANGED <<serial, fcall, fattempt, fresult, fvalue, freply, fexc,
                   sampleVars, monVars, workerVars, now, auxVars>>

\* the foreground gets the guard and writes its request to a device that
\* may answer only after the read has timed out
FgAcquireWriteSlow ==
    /\ fpc = "acq"
    /\ AcquireWrite("fg", OpOf(fcall), SlowReplies(OpOf(fcall)))
    /\ frames' = frames + 1
    /\ fpc' = "rd"
    /\ UNCHANGED <<serial, fcall, fattempt, fresult, fvalue, freply, fexc,
                   sampleVars, monVars, workerVars, now, auxVars>>

\* a release that closes the link before forcing the output off
Kp184ExitCloseFirst ==
    /\ fpc = "body" /\ serial = "open"
    /\ mstate \in {"idle", "released", "failed"}
    /\ serial' = "closed"
    /\ fcall' = Call("exit", [fn |-> "write", address |-> REG_OUTPUT, value |-> 0])
    /\ fpc' = "acq"
    /\ frames' = 0 /\ fresult' = "none" /\ fvalue' = -1 /\ freply' = NoReply
    /\ UNCHANGED <<serial_lock, wire, rx, fattempt, fexc, sampleVars, monVars,
                   workerVars, now, auxVars>>

\* Kp184.__exit__, line 63: set_output_on(False)
Kp184ExitBegin ==
    /\ fpc = "body" /\ serial = "open"
    /\ mstate \in {"idle", "released", "failed"}
    /\ fcall' = Call("exit", [fn |-> "write", address |-> REG_OUTPUT, value |-> 0])
    /\ fpc' = "acq"
    /\ frames' = 0 /\ fresult' = "none" /\ fvalue' = -1 /\ freply' = NoReply
    /\ UNCHANGED <<devVars, fattempt, fexc, sampleVars, monVars, workerVars, now, auxVars>>

\* a write that is sent again after a failed acknowledgement
FgWriteEndResend ==
    /\ fpc = "rd" /\ fcall.fn = "write"
    /\ ReadRelease("fg")
    /\ freply' = Pending("fg").reply
    /\ LET raised == WriteOutcome("fg")
       IN  IF raised # "none" /\ frames < 2
           THEN /\ fpc' = "acq"
                /\ UNCHANGED <<fresult, serial, fexc>>
           ELSE /\ fresult' = IF raised = "none" THEN "ok" ELSE raised
                /\ IF fcall.ctx = "exit"
                   THEN /\ fpc' = "done"
                        /\ serial' = IF raised = "none" THEN "closed" ELSE serial
                        /\ fexc' = IF raised = "none" THEN fexc ELSE raised
                   ELSE /\ fpc' = "body"
                        /\ UNCHANGED <<serial, fexc>>
    /\ UNCHANGED <<fcall, fattempt, fvalue, frames, sampleVars, monVars,
                   workerVars, now, auxVars>>

\* _modbus_write_unsafe from serial.read on; in __exit__ followed by
\* serial.close() when the write did not raise
FgWriteEnd ==
    /\ fpc = "rd" /\ fcall.fn = "write"
    /\ ReadRelease("fg")
    /\ freply' = Pending("fg").reply
    /\ LET raised == WriteOutcome("fg")
       IN  /\ fresult' = IF raised = "none" THEN "ok" ELSE raised
           /\ IF fcall.ctx = "exit"
              THEN /\ fpc' = "done"
                   /\ serial' = IF raised = "none" THEN "closed" ELSE serial
                   /\ fexc' = IF raised = "none" THEN fexc ELSE raised
              ELSE /\ fpc' = "body"
                   /\ UNCHANGED <<serial, fexc>>
    /\ UNCHANGED <<fcall, fattempt, fvalue, frames, sampleVars, monVars,
                   workerVars, now, auxVars>>

\* _modbus_read_unsafe from serial.read on
FgReadEnd ==
    /\ fpc = "rd" /\ fcall.fn = "read"
    /\ ReadRelease("fg")
    /\ freply' = Pending("fg").reply
    /\ LET r == ReadOutcome("fg")
       IN  /\ fresult' = IF r.raised = "none" THEN "ok" ELSE r.raised
           /\ fvalue' = r.value
    /\ fpc' = "body"
    /\ UNCHANGED <<serial, fcall, fattempt, fexc, frames, sampleVars, monVars,
                   workerVars, now, auxVars>>

\* get_status_block called directly by the body, from serial.read on
FgStatusEnd ==
    /\ fpc = "rd" /\ fcall.fn = "status" /\ fcall.ctx = "body"
    /\ ReadRelease("fg")
    /\ freply' = Pending("fg").reply
    /\ LET res == StatusOutcome("fg")
       IN  fresult' = IF res.raised = "none" THEN "ok" ELSE res.raised
    /\ fpc' = "body"
    /\ UNCHANGED <<serial, fcall, fattempt, fvalue, fexc, frames, sampleVars,
                   monVars, workerVars, now, auxVars>>

(***************************************************************************)
(* Foreground: the scope of the monitor                                    *)
(***************************************************************************)
\* background_monitor(log_file, interval_s) and BackgroundMonitor.__enter__
\* up to the first _refresh
MonEnterBegin(lf) ==
    /\ fpc = "body" /\ fexc = "none" /\ serial = "open"
    /\ mstate = "idle"
    /\ log_file' = lf
    /\ mstate' = "entering"
    /\ fcall' = Call("enter1", StatusOp)
    /\ fattempt' = 1
    /\ fpc' = "acq"
    /\ frames' = 0 /\ fresult' = "none" /\ fvalue' = -1 /\ freply' = NoReply
    /\ sessions' = sessions + 1
    /\ refreshes' = 0
    /\ UNCHANGED <<devVars, fexc, sampleVars, alive, index, worker_start, log,
                   file, workerVars, now, stopped, snap, codecVars>>

\* Kp184.background_monitor() once more, after the scope of the monitor
\* before it has ended (the body has dealt with a failed start):
\* BackgroundMonitor.__init__ of another object; the log destination stays
MonNew ==
    /\ fpc = "body" /\ serial = "open"
    /\ mstate \in {"released", "failed"}
    /\ sessions < MaxSessions
    /\ mstate' = "idle"
    /\ fexc' = "none"
    /\ alive' = FALSE /\ index' = -1 /\ worker_start' = -1 /\ log' = FALSE
    /\ status_block' = NoBlock /\ timestamp' = -1 /\ voltage' = -1
    /\ current' = -1 /\ last' = NoSample
    /\ wpc' = "none" /\ wattempt' = 0 /\ next_sample_time' = -1
    /\ pollBegin' = -1 /\ allShort' = TRUE /\ iters' = 0 /\ warned' = 0
    /\ stopped' = FALSE /\ refreshes' = 0
    /\ UNCHANGED <<devVars, fpc, fcall, fattempt, fresult, fvalue, freply,
                   frames, log_file, file, now, sessions, snap, codecVars>>

\* "with monitor:" once more on the same BackgroundMonitor object, after
\* its __exit__ returned or its __enter__ raised: __enter__ up to the
\* first _refresh
MonReEnter ==
    /\ fpc = "body" /\ serial = "open"
    /\ mstate \in {"released", "failed"}
    /\ sessions < MaxSessions
    /\ mstate' = "entering"
    /\ fexc' = "none"
    /\ fcall' = Call("enter1", StatusOp)
    /\ fattempt' = 1
    /\ fpc' = "acq"
    /\ frames' = 0 /\ fresult' = "none" /\ fvalue' = -1 /\ freply' = NoReply
    /\ sessions' = sessions + 1
    /\ refreshes' = 0
    /\ wattempt' = 0 /\ next_sample_time' = -1
    /\ pollBegin' = -1 /\ allShort' = TRUE /\ iters' = 0 /\ warned' = 0
    /\ UNCHANGED <<devVars, sampleVars, log_file, alive, index, worker_start,
                   log, file, wpc, now, stopped, snap, codecVars>>

\* the worker is started right after the log is prepared
EnterPrepareNoSecond ==
    /\ log' = log_file
    /\ file' = IF log_file
               THEN [exists |-> TRUE,
                     headers |-> file.headers + (IF file.exists THEN 0 ELSE 1),
                     rows |-> file.rows]
               ELSE file
    /\ index' = 0
    /\ alive' = TRUE
    /\ worker_start' = now
    /\ wpc' = "loop"
    /\ mstate' = "running"
    /\ fpc' = "body"
    /\ UNCHANGED <<fcall, fattempt, frames, fexc>>

\* the header is written whether or not the destination existed
EnterPrepareHeaderAlways ==
    /\ log' = log_file
    /\ file' = IF log_file
               THEN [exists |-> TRUE, headers |-> file.headers + 1,
                     rows |-> file.rows]
               ELSE file
    /\ index' = 0
    /\ alive' = TRUE
    /\ fcall' = Call("enter2", StatusOp)
    /\ fattempt' = 1
    /\ fpc' = "acq"
    /\ frames' = 0
    /\ UNCHANGED <<mstate, worker_start, wpc, fexc>>

\* BackgroundMonitor.__enter__, lines 242-257: prepare the log, then
\* index = 0, alive = True, the thread object, and the second _refresh
EnterPrepare ==
    /\ log' = log_file
    /\ file' = IF log_file
               THEN [exists |-> TRUE,
                     headers |-> file.headers + (IF file.exists THEN 0 ELSE 1),
                     rows |-> file.rows]
               ELSE file
    /\ index' = 0
    /\ alive' = TRUE
    /\ fcall' = Call("enter2", StatusOp)
    /\ fattempt' = 1
    /\ fpc' = "acq"
    /\ frames' = 0
    /\ UNCHANGED <<mstate, worker_start, wpc, fexc>>

\* BackgroundMonitor.__enter__, lines 258-260: start the worker
EnterStart ==
    /\ worker_start' = now
    /\ wpc' = "loop"
    /\ mstate' = "running"
    /\ fpc' = "body"
    /\ UNCHANGED <<log, file, index, alive, fcall, fattempt, frames, fexc>>

\* the exception leaves __enter__: the with body and __exit__ are skipped
EnterFail(exc) ==
    /\ fexc' = exc
    /\ mstate' = "failed"
    /\ fpc' = "body"
    /\ UNCHANGED <<log, file, index, alive, fcall, fattempt, frames,
                   worker_start, wpc>>

\* one attempt of _refresh on the foreground thread (inside __enter__) ends
FgRefreshEnd ==
    /\ fpc = "rd" /\ fcall.fn = "status" /\ fcall.ctx \in {"enter1", "enter2"}
    /\ ReadRelease("fg")
    /\ freply' = Pending("fg").reply
    /\ LET res == StatusOutcome("fg")
       IN  IF res.raised = "none"
           THEN /\ Publish(res.block)
                /\ refreshes' = refreshes + 1
                /\ IF fcall.ctx = "enter1" THEN EnterPrepare ELSE EnterStart
           ELSE IF res.raised = "ChecksumError" /\ RetryAgain(fattempt)
           THEN /\ fattempt' = fattempt + 1
                /\ fpc' = "acq"
                /\ UNCHANGED <<sampleVars, monVars, wpc, fcall, frames, fexc,
                               refreshes>>
           ELSE /\ EnterFail(IF res.raised = "ChecksumError" THEN "RetryError"
                             ELSE res.raised)
                /\ UNCHANGED <<sampleVars, refreshes>>
    /\ UNCHANGED <<serial, fresult, fvalue, log_file, wattempt, next_sample_time,
                   pollBegin, allShort, iters, warned, now, sessions, stopped,
                   snap, codecVars>>

\* BackgroundMonitor.__exit__, line 263
MonExitBegin ==
    /\ fpc = "body" /\ mstate = "running"
    /\ alive' = FALSE
    /\ mstate' = "releasing"
    /\ fpc' = "join"
    /\ UNCHANGED <<devVars, fcall, fattempt, fresult, fvalue, freply, fexc, frames,
                   sampleVars, log_file, index, worker_start, log, file,
                   workerVars, now, auxVars>>

\* a release that does not wait for the worker
ThreadEndedNoWait(pc) == TRUE

\* Thread.join() returns once the thread has ended
ThreadEnded(pc) == pc \in {"done", "crashed"}

\* BackgroundMonitor.__exit__, line 264
MonExitJoin ==
    /\ fpc = "join"
    /\ ThreadEnded(wpc)
    /\ mstate' = "released"
    /\ stopped' = TRUE
    /\ fpc' = "body"
    /\ UNCHANGED <<devVars, fcall, fattempt, fresult, fvalue, freply, fexc, frames,
                   sampleVars, log_file, alive, index, worker_start, log, file,
                   workerVars, now, sessions, refreshes, snap, codecVars>>

(***************************************************************************)
(* The worker thread: BackgroundMonitor._worker                            *)
(***************************************************************************)
\* a loop that does not look at the liveness flag
WorkerLoopForever ==
    /\ wpc = "loop"
    /\ index < MaxTicks
    /\ wpc' = "acq"
    /\ wattempt' = 1
    /\ pollBegin' = now
    /\ UNCHANGED <<devVars, fgVars, sampleVars, monVars, next_sample_time,
                   allShort, iters, warned, now, auxVars>>

\* "while self.alive": begin the next _refresh, or leave the loop
WorkerLoop ==
    /\ wpc = "loop"
    /\ IF alive
       THEN /\ index < MaxTicks
            /\ wpc' = "acq"
            /\ wattempt' = 1
            /\ pollBegin' = now
       ELSE /\ wpc' = "done"
            /\ UNCHANGED <<wattempt, pollBegin>>
    /\ UNCHANGED <<devVars, fgVars, sampleVars, monVars, next_sample_time,
                   allShort, iters, warned, now, auxVars>>

\* the worker gets the guard and writes the status-block request
WorkerAcquireWrite(noisy) ==
    /\ wpc = "acq"
    /\ AcquireWrite("bg", StatusOp,
                    IF noisy THEN Replies(StatusOp) ELSE CleanReplies(StatusOp))
    /\ wpc' = "rd"
    /\ UNCHANGED <<serial, fgVars, sampleVars, monVars, wattempt,
                   next_sample_time, pollBegin, allShort, iters, warned, now, auxVars>>

\* a tick skipped; a deadline one interval early
NextIndexSkip(idx) == idx + 2
NextSampleTimeEarly(start, idx) == start + (idx - 1) * Interval

\* BackgroundMonitor._interwaller
NextIndex(idx) == idx + 1
NextSampleTime(start, idx) == start + idx * Interval
Overrun(sleep_to_next) == sleep_to_next < 0

\* _worker, lines 232-236, after _refresh returned: the log record, then
\* _interwaller up to the sleep
WorkerRecord ==
    /\ file' = IF log THEN [file EXCEPT !.rows = @ + 1] ELSE file
    /\ index' = NextIndex(index)
    /\ next_sample_time' = NextSampleTime(worker_start, index')
    /\ IF Overrun(next_sample_time' - now)
       THEN /\ warned' = warned + 1
            /\ wpc' = "loop"
       ELSE /\ warned' = warned
            /\ wpc' = "sleep"
    /\ iters' = iters + 1
    /\ allShort' = (allShort /\ now - pollBegin < Interval)

\* one attempt of the worker's _refresh ends.  The four assignments of
\* _refresh are taken as one step: for specifications in which no other
\* thread reads the fields of the monitor.
WorkerReadEnd ==
    /\ wpc = "rd"
    /\ ReadRelease("bg")
    /\ LET res == StatusOutcome("bg")
       IN  IF res.raised = "none"
           THEN /\ Publish(res.block)
                /\ WorkerRecord
                /\ UNCHANGED wattempt
           ELSE IF res.raised = "ChecksumError" /\ RetryAgain(wattempt)
           THEN /\ wattempt' = wattempt + 1
                /\ wpc' = "acq"
                /\ UNCHANGED <<sampleVars, file, index, next_sample_time,
                               warned, iters, allShort>>
           ELSE \* RetryError (or another exception) ends the thread
                /\ wpc' = "crashed"
                /\ UNCHANGED <<sampleVars, file, index, next_sample_time,
                               warned, iters, allShort, wattempt>>
    /\ UNCHANGED <<serial, fgVars, mstate, log_file, alive, worker_start, log,
                   pollBegin, now, auxVars>>

\* _refresh statement by statement, for specifications in which another
\* thread reads the fields of the monitor while the worker polls.
\* Line 221: one attempt ends; self.status_block is assigned when
\* get_status_block returned
WorkerReadBlock ==
    /\ wpc = "rd"
    /\ ReadRelease("bg")
    /\ LET res == StatusOutcome("bg")
       IN  IF res.raised = "none"
           THEN /\ status_block' = res.block
                /\ wpc' = "stamp"
                /\ UNCHANGED wattempt
           ELSE IF res.raised = "ChecksumError" /\ RetryAgain(wattempt)
           THEN /\ wattempt' = wattempt + 1
                /\ wpc' = "acq"
                /\ UNCHANGED status_block
           ELSE /\ wpc' = "crashed"
                /\ UNCHANGED <<status_block, wattempt>>
    /\ UNCHANGED <<serial, fgVars, timestamp, voltage, current, last, monVars,
                   next_sample_time, pollBegin, allShort, iters, warned, now,
                   auxVars>>

\* line 223: self.timestamp = datetime.datetime.now(tz=self.tz).isoformat()
WorkerStamp ==
    /\ wpc = "stamp"
    /\ timestamp' = now
    /\ wpc' = "volt"
    /\ UNCHANGED <<devVars, fgVars, status_block, voltage, current, last,
                   monVars, wattempt, next_sample_time, pollBegin, allShort,
                   iters, warned, now, auxVars>>

\* line 225: self.voltage = self.status_block["Voltage"]
WorkerVoltage ==
    /\ wpc = "volt"
    /\ voltage' = status_block.Voltage
    /\ wpc' = "curr"
    /\ UNCHANGED <<devVars, fgVars, status_block, timestamp, current, last,
                   monVars, wattempt, next_sample_time, pollBegin, allShort,
                   iters, warned, now, auxVars>>

\* line 226: self.current = self.status_block["Current"]; _refresh returns
\* and _worker goes on to the log record and _interwaller
WorkerCurrent ==
    /\ wpc = "curr"
    /\ current' = status_block.Current
    /\ last' = [timestamp |-> timestamp, voltage |-> voltage,
                current |-> status_block.Current, block |-> status_block]
    /\ WorkerRecord
    /\ UNCHANGED <<devVars, fgVars, status_block, timestamp, voltage, mstate,
                   log_file, alive, worker_start, log, wattempt, pollBegin,
                   now, auxVars>>

\* the body reads the latest sample off the monitor: monitor.timestamp,
\* monitor.voltage, monitor.current, monitor.status_block
ReadLatest ==
    /\ fpc = "body" /\ mstate = "running"
    /\ snap' = [got |-> [timestamp |-> timestamp, voltage |-> voltage,
                         current |-> current, block |-> status_block],
                last |-> last, taken |-> TRUE]
    /\ UNCHANGED <<devVars, fgVars, sampleVars, monVars, workerVars, now,
                   sessVars, codecVars>>

\* time.sleep(sleep_to_next) returns
WorkerWake ==
    /\ wpc = "sleep"
    /\ now >= next_sample_time
    /\ wpc' = "loop"
    /\ UNCHANGED <<devVars, fgVars, sampleVars, monVars, wattempt,
                   next_sample_time, pollBegin, allShort, iters, warned, now, auxVars>>

(***************************************************************************)
(* The frame codec on its own: _crc and _raise_checksum applied to byte    *)
(* sequences, and the *_unsafe decoders applied to buffers shorter than    *)
(* the read asked for                                                      *)
(***************************************************************************)
MaxCodecLen == 2     \* longest byte sequence b that is sealed and verified

\* the byte values the sequences are made of
CodecBytes == {0, 1, 90, 165, 255}

\* byte sequences of length 0..n over CodecBytes
SeqsUpTo(n) == UNION {[1..k -> CodecBytes] : k \in 0..n}

\* the frames without their CRC that the three *_unsafe methods build
RequestBodies == {DropLast2(Msg(o)) : o \in DirectOps}

\* the sequences b of the round trip
CodecInputs == SeqsUpTo(MaxCodecLen) \cup RequestBodies

\* bit i of the frame inverted (bit 0 is the lowest bit of the first byte)
FlipBit(frame, i) ==
    [frame EXCEPT ![(i \div 8) + 1] =
        IF Bit(@, i % 8) = 1 THEN @ - 2 ^ (i % 8) ELSE @ + 2 ^ (i % 8)]

\* a reading whose reply, cut after 7 bytes, ends in the CRC of its first 5
AlignedReading == 22597

\* the intact replies of the device to the operations that are decoded
ShortOps == DirectOps
FullReplies(o) ==
    IF o.fn = "write" THEN {DeviceAck(Msg(o), "ok")}
    ELSE IF o.fn = "read"
    THEN {DeviceReadReply(Msg(o), "ok", v) : v \in ReadValues \cup {AlignedReading}}
    ELSE {DeviceStatusReply(Msg(o), "ok", DeviceSamples[i]) :
            i \in 1..Len(DeviceSamples)}

\* what serial.read(n) may return after a timeout: the first k < n bytes of
\* the reply, or up to two bytes of noise
ShortBuffers(o) ==
    {Take(f, k) : f \in FullReplies(o), k \in 0..(ReadLen(o) - 1)}
        \cup SeqsUpTo(2)

CodecIdle ==
    UNCHANGED <<devVars, fgVars, sampleVars, monVars, workerVars, now,
                sessVars, snap>>

InitCodec ==
    /\ InitDriver
    /\ cres = "none"
    /\ \/ /\ cpc = "new"
          /\ cop = [fn |-> "verify", address |-> 0, value |-> 0]
          /\ cframe \in CodecInputs
       \/ /\ cpc = "received"
          /\ cop \in ShortOps
          /\ cframe \in ShortBuffers(cop)

\* msg += self._crc(msg)
CodecSeal ==
    /\ cpc = "new"
    /\ cframe' = cframe \o _crc(cframe)
    /\ cpc' = "sealed"
    /\ UNCHANGED <<cop, cres>>
    /\ CodecIdle

\* one bit of the frame is inverted on the line
CodecFlip(i) ==
    /\ cpc = "sealed"
    /\ i \in 0..(8 * Len(cframe) - 1)
    /\ cframe' = FlipBit(cframe, i)
    /\ cpc' = "flipped"
    /\ UNCHANGED <<cop, cres>>
    /\ CodecIdle

\* self._raise_checksum(response)
CodecVerify ==
    /\ cpc \in {"sealed", "flipped"}
    /\ cres' = IF _raise_checksum(cframe) THEN "ChecksumError" ELSE "ok"
    /\ cpc' = IF cpc = "sealed" THEN "checked" ELSE "checkedFlipped"
    /\ UNCHANGED <<cop, cframe>>
    /\ CodecIdle

\* a *_unsafe method from the return of serial.read on, the read having
\* returned cframe
CodecDecode ==
    /\ cpc = "received"
    /\ cres' = LET raised ==
                     IF cop.fn = "write"
                     THEN WriteReadback(cop.address, cop.value, cframe)
                     ELSE IF cop.fn = "read"
                     THEN ReadResult(cop.address, cframe).raised
                     ELSE StatusResult(cframe).raised
               IN  IF raised = "none" THEN "ok" ELSE raised
    /\ cpc' = "decoded"
    /\ UNCHANGED <<cop, cframe>>
    /\ CodecIdle

(***************************************************************************)
(* The clock                                                               *)
(***************************************************************************)
\* the worker sleeps and the clock reaches its deadline
SleepPass ==
    /\ wpc = "sleep" /\ now < next_sample_time
    /\ now' = next_sample_time
    /\ UNCHANGED <<devVars, fgVars, sampleVars, monVars, workerVars, auxVars>>

\* one unit of time passes while the worker is blocked (in serial.read,
\* waiting for the guard, asleep before its deadline) or while the
\* foreground reads inside BackgroundMonitor.__enter__
Tick ==
    /\ now < MaxTime
    /\ \/ wpc = "rd"
       \/ wpc = "acq" /\ serial_lock # "free"
       \/ wpc = "sleep" /\ now < next_sample_time
       \/ wpc = "none" /\ fpc = "rd" /\ mstate = "entering" /\ now < MaxStart
    /\ now' = now + 1
    /\ UNCHANGED <<devVars, fgVars, sampleVars, monVars, workerVars, auxVars>>

(***************************************************************************)
(* Specifications                                                          *)
(***************************************************************************)
\* Foreground and worker on a noisy link; reads return at once and time
\* passes only while the worker sleeps.
Next ==
    \/ Kp184Enter
    \/ \E o \in DirectOps : CallDirect(o)
    \/ BodyRaise
    \/ FgAcquireWrite(TRUE)
    \/ FgWriteEnd
    \/ FgReadEnd
    \/ FgStatusEnd
    \/ Kp184ExitBegin
    \/ \E lf \in BOOLEAN : MonEnterBegin(lf)
    \/ FgRefreshEnd
    \/ MonExitBegin
    \/ MonExitJoin
    \/ WorkerLoop
    \/ WorkerAcquireWrite(TRUE)
    \/ WorkerReadEnd
    \/ WorkerWake
    \/ SleepPass

Spec == Init /\ [][Next]_vars

\* The schedule of the worker: reads and waits for the guard take time, the
\* worker's link is noisy, and the foreground switches the output on while
\* the monitor runs (its own exchanges are intact).
NextTimed ==
    \/ Kp184Enter
    \/ CallDirect([fn |-> "write", address |-> REG_OUTPUT, value |-> 1])
    \/ FgAcquireWrite(FALSE)
    \/ FgWriteEnd
    \/ Kp184ExitBegin
    \/ MonEnterBegin(TRUE)
    \/ FgRefreshEnd
    \/ MonExitBegin
    \/ MonExitJoin
    \/ WorkerLoop
    \/ WorkerAcquireWrite(TRUE)
    \/ WorkerReadEnd
    \/ WorkerWake
    \/ Tick

SpecTimed == Init /\ [][NextTimed]_vars

\* Successive scopes of monitors, on fresh objects or on the same one, on
\* a noisy link.
NextSessions ==
    \/ Kp184Enter
    \/ \E lf \in BOOLEAN : MonEnterBegin(lf)
    \/ MonNew
    \/ MonReEnter
    \/ FgAcquireWrite(TRUE)
    \/ FgRefreshEnd
    \/ MonExitBegin
    \/ MonExitJoin
    \/ WorkerLoop
    \/ WorkerAcquireWrite(TRUE)
    \/ WorkerReadEnd
    \/ WorkerWake
    \/ SleepPass

SpecSessions == Init /\ [][NextSessions]_vars

\* Release of the monitor under the scheduling the program has: every
\* serial.read returns (with data or on its timeout), time passes, a thread
\* that can run does run.
NextLive ==
    \/ Kp184Enter
    \/ CallDirect([fn |-> "write", address |-> REG_OUTPUT, value |-> 1])
    \/ FgAcquireWrite(TRUE)
    \/ FgWriteEnd
    \/ MonEnterBegin(TRUE)
    \/ FgRefreshEnd
    \/ MonExitBegin
    \/ MonExitJoin
    \/ WorkerLoop
    \/ WorkerAcquireWrite(TRUE)
    \/ WorkerReadEnd
    \/ WorkerWake
    \/ SleepPass

SpecLive ==
    /\ Init /\ [][NextLive]_vars
    /\ WF_vars(FgWriteEnd) /\ WF_vars(FgRefreshEnd)
    /\ WF_vars(WorkerReadEnd)
    /\ WF_vars(WorkerLoop) /\ WF_vars(WorkerAcquireWrite(TRUE))
    /\ WF_vars(WorkerWake) /\ WF_vars(SleepPass)
    /\ WF_vars(MonExitJoin)

\* The body reads the latest sample while the worker polls; _refresh is
\* taken statement by statement.
NextReaders ==
    \/ Kp184Enter
    \/ \E lf \in BOOLEAN : MonEnterBegin(lf)
    \/ FgAcquireWrite(FALSE)
    \/ FgRefreshEnd
    \/ ReadLatest
    \/ MonExitBegin
    \/ MonExitJoin
    \/ WorkerLoop
    \/ WorkerAcquireWrite(TRUE)
    \/ WorkerReadBlock
    \/ WorkerStamp
    \/ WorkerVoltage
    \/ WorkerCurrent
    \/ WorkerWake
    \/ SleepPass

SpecReaders == Init /\ [][NextReaders]_vars

\* Direct calls to a device that sometimes answers after the timeout.
NextLate ==
    \/ Kp184Enter
    \/ \E o \in ReadOps \cup {StatusOp}
                 \cup {[fn |-> "write", address |-> REG_OUTPUT, value |-> 1]} :
          CallDirect(o)
    \/ FgAcquireWriteSlow
    \/ FgWriteEnd
    \/ FgReadEnd
    \/ FgStatusEnd

SpecLate == Init /\ [][NextLate]_vars

\* The codec alone, on byte sequences and on short buffers.
NextCodec ==
    \/ CodecSeal
    \/ \E i \in 0..(8 * (MaxCodecLen + 12) - 1) : CodecFlip(i)
    \/ CodecVerify
    \/ CodecDecode

SpecCodec == InitCodec /\ [][NextCodec]_vars

(***************************************************************************)
(* Properties                                                              *)
(***************************************************************************)
\* C1: at most one transaction is in progress on the serial link at any
\* time: while a thread is between the write of its request and the end of
\* its response read, it holds the guard and no other thread has written.
C1_OneTransaction ==
    /\ Cardinality(wire) <= 1
    /\ \A q \in wire : serial_lock = q.by

\* the worker waits for the guard while the foreground's exchange is on the link
C1_Witness ==
    /\ wpc = "acq" /\ mstate = "running"
    /\ \E q \in wire : q.by = "fg" /\ q.op.fn = "write"

\* C2: a direct register operation (an accessor called by the body, or the
\* set_output_on(False) of Kp184.__exit__) puts exactly one request frame on
\* the link whether it succeeds or fails; after its response was read the
\* call is over (nothing is sent again), and a reply that is not intact
\* ends it with the exception raised to the caller.
C2_Direct(c) == c.ctx \in {"body", "exit"}
C2_OneFrame ==
    /\ [](C2_Direct(fcall) => frames <= 1)
    /\ [](C2_Direct(fcall) /\ fpc \in {"rd", "body", "done"} => frames = 1)
    /\ [][C2_Direct(fcall) /\ fpc = "rd"
            => /\ fpc' \in {"rd", "body", "done"}
               /\ frames' = frames
               /\ (fpc' # "rd" /\ Pending("fg").reply.kind # "ok"
                     => fresult' = "ChecksumError")]_vars

\* a register write failed and its single frame was not sent again
C2_Witness ==
    /\ fpc = "body" /\ fcall.ctx = "body" /\ fcall.fn = "write"
    /\ fresult = "ChecksumError" /\ frames = 1

\* what an acknowledgement is, read off its bytes: [crc, addr, low16]
AckFacts ==
    [o \in WriteOps |-> [r \in Replies(o) |->
        LET ack == DeviceReply(o, r)
        IN  IF Len(ack) # 8 THEN [crc |-> FALSE, addr |-> FALSE, low16 |-> FALSE]
            ELSE [crc |-> <<ack[7], ack[8]>> = _crc(SubSeq(ack, 1, 6)),
                  addr |-> 256 * ack[3] + ack[4] = o.address,
                  low16 |-> 256 * ack[5] + ack[6] = o.value % 65536]]]

\* C3: a register write succeeds only when the acknowledgement's CRC, its
\* echoed address and its echoed low 16 bits all match; otherwise, also
\* when the CRC is valid and only the address or the value differs, it
\* fails with ChecksumError.
C3_WriteVerified ==
    (fcall.fn = "write" /\ fresult # "none")
        => LET f == AckFacts[OpOf(fcall)][freply]
           IN  IF f.crc /\ f.addr /\ f.low16 THEN fresult = "ok"
               ELSE fresult = "ChecksumError"

\* an acknowledgement with a valid CRC and another value was refused
C3_Witness ==
    /\ fcall.fn = "write" /\ fcall.value = 130000
    /\ freply.kind = "badval" /\ fresult = "ChecksumError"
    /\ AckFacts[OpOf(fcall)][freply].crc

\* a _refresh attempt of the worker read an intact status block
C4_WorkerOk == wpc = "rd" /\ Pending("bg").reply.kind = "ok"
\* a _refresh attempt of the foreground (in __enter__) read an intact one
C4_FgOk ==
    /\ fpc = "rd" /\ fcall.ctx \in {"enter1", "enter2"}
    /\ Pending("fg").reply.kind = "ok"

\* C4: one refresh makes at most 10 status-block read attempts; an intact
\* reply on any attempt from the 1st to the 10th makes the refresh succeed
\* and the sample of that attempt is published; the refresh gives up only
\* after a failed 10th attempt.
C4_BoundedRetry ==
    /\ [](wattempt <= MaxAttempts /\ fattempt <= MaxAttempts)
    /\ [][C4_WorkerOk /\ wpc' # "rd"
            => /\ wpc' \in {"sleep", "loop"}
               /\ voltage' = DeviceSamples[Pending("bg").reply.val].mV
               /\ current' = DeviceSamples[Pending("bg").reply.val].mA
               /\ status_block'.Voltage = voltage'
               /\ status_block'.Current = current']_vars
    /\ [][C4_FgOk /\ fpc' # "rd"
            => /\ mstate' \in {"entering", "running"}
               /\ voltage' = DeviceSamples[Pending("fg").reply.val].mV
               /\ status_block'.Voltage = voltage']_vars
    /\ [][wpc = "rd" /\ wpc' = "crashed" => wattempt = MaxAttempts]_vars
    /\ [][mstate = "entering" /\ mstate' = "failed"
            => fattempt = MaxAttempts]_vars

\* nine failed attempts, then the tenth succeeded and its sample is published
C4_Witness ==
    /\ wpc \in {"sleep", "loop"} /\ wattempt = MaxAttempts /\ iters >= 1
    /\ voltage = 3000 /\ timestamp = now

\* C5: when the worker's _refresh has failed on all 10 attempts, the
\* failure reaches the owner of the monitor's scope: once the scope has
\* been released, the foreground has the sampler's RetryError.
C5_FailureSurfaced ==
    (wpc = "crashed" /\ mstate = "released") => fexc = "RetryError"

\* C6: release returns only after the worker thread has ended, and once it
\* has returned the sampler issues no status-block read, publishes no
\* sample and appends no log record.
C6_ReleaseJoins ==
    /\ [](mstate = "released"
            => /\ wpc \in {"done", "crashed"}
               /\ \A q \in wire : q.by # "bg")
    /\ [][mstate = "released"
            => /\ status_block' = status_block /\ timestamp' = timestamp
               /\ voltage' = voltage /\ current' = current
               /\ file' = file
               /\ \A q \in wire' : q.by # "bg"]_vars

\* release has returned after the worker polled and logged; the worker left
\* its loop
C6_Witness ==
    /\ mstate = "released" /\ wpc = "done" /\ ~alive
    /\ iters >= 1 /\ file.rows >= 1

\* C7: release of the device handle issues the output-off command (write 0
\* to the output-enable register) exactly once, and the link is closed
\* only after that exchange is over: never before it was issued and never
\* while it is pending.
C7_OffThenClose ==
    /\ fcall.ctx = "exit"
         => /\ fcall.fn = "write" /\ fcall.address = REG_OUTPUT /\ fcall.value = 0
            /\ frames <= 1
    /\ fcall.ctx = "exit" /\ fpc \in {"acq", "rd"} => serial = "open"
    /\ fpc = "done" => fcall.ctx = "exit" /\ frames = 1
    /\ serial = "closed"
         => /\ fcall.ctx = "exit" /\ fpc = "done" /\ frames = 1
            /\ fresult # "none" /\ wire = {}

\* the link is closed, after the one output-off exchange
C7_Witness ==
    /\ serial = "closed" /\ fcall.ctx = "exit" /\ frames = 1 /\ freply.kind = "ok"

\* C8: on every exit path the device handle ends with the output commanded
\* off and the serial link closed.
C8_OffAndClosed ==
    fpc = "done" => /\ fcall.ctx = "exit" /\ frames = 1
                    /\ serial = "closed"

\* C9: the (n+1)-th poll (n >= 1) never begins before start + n * interval,
\* and it begins exactly then while every iteration so far took less than
\* the interval.
C9_Anchored ==
    (wpc \in {"acq", "rd"} /\ index >= 1)
        => /\ pollBegin >= worker_start + index * Interval
           /\ allShort => pollBegin = worker_start + index * Interval

\* the third poll began at start + 2 * interval, the first two having taken
\* less than the interval
C9_Witness ==
    /\ wpc = "rd" /\ index = 2 /\ allShort
    /\ worker_start >= 1
    /\ pollBegin = worker_start + 2 * Interval /\ timestamp > worker_start

\* C10: every loop iteration advances the tick index by exactly one, so
\* the index is the number of iterations completed (polled, recorded and
\* counted by _interwaller): none skipped, none repeated; an iteration whose
\* deadline is already past logs the warning and goes on without sleeping,
\* any other sleeps without a warning.
C10_TickByOne ==
    /\ [](index >= 0 => index = iters)
    /\ [](warned <= iters)
    /\ [][iters' # iters
            => /\ iters' = iters + 1 /\ index' = index + 1
               /\ IF worker_start + index' * Interval < now
                  THEN warned' = warned + 1 /\ wpc' = "loop"
                  ELSE warned' = warned /\ wpc' = "sleep"]_vars

\* an iteration overran, was warned about, and the loop went on to later ticks
C10_Witness ==
    /\ warned >= 1 /\ index >= 2 /\ index = iters
    /\ wpc = "rd" /\ now > worker_start + index * Interval

\* C11: over successive monitor scopes appending to the same log
\* destination, the destination holds exactly one header record: the header
\* is written only by an __enter__ that finds the destination absent, and
\* never again once it exists.
C11_HeaderOnce ==
    /\ [](file.exists <=> file.headers = 1)
    /\ [](file.headers <= 1)
    /\ [][file.headers' # file.headers
            => ~file.exists /\ mstate = "entering" /\ log_file]_vars
    /\ [][file.exists => file'.exists /\ file'.headers = file.headers]_vars

\* a second scope is appending rows to the destination the first one made
C11_Witness ==
    /\ sessions = 2 /\ mstate = "running" /\ log /\ file.rows >= 2
    /\ file.headers = 1 /\ iters = 1

\* C12: for every byte sequence b, the frame b + _crc(b) passes
\* _raise_checksum, and with any single bit of it inverted, in b or in the
\* two CRC bytes, _raise_checksum raises ChecksumError.
C12_RoundTrip ==
    /\ cpc = "checked" => cres = "ok"
    /\ cpc = "checkedFlipped" => cres = "ChecksumError"

\* a frame with its last bit (in the CRC field) inverted was refused
C12_Witness ==
    /\ cpc = "checkedFlipped" /\ cres = "ChecksumError"
    /\ Len(cframe) = MaxCodecLen + 2
    /\ Last2(cframe) # _crc(DropLast2(cframe))
    /\ DropLast2(FlipBit(cframe, 8 * Len(cframe) - 1)) = DropLast2(cframe)
    /\ ~_raise_checksum(FlipBit(cframe, 8 * Len(cframe) - 1))

\* C13: a response shorter than the read asked for (9 bytes for a
\* register read, 8 for a write acknowledgement, 37 for the status block)
\* is always refused with ChecksumError: no short buffer passes
\* _raise_checksum and reaches the decoding of the payload.
C13_ShortRejected ==
    (cpc = "decoded" /\ Len(cframe) < ReadLen(cop)) => cres = "ChecksumError"

\* C14: a thread that reads the monitor's latest sample while the worker is
\* polling gets an atomic snapshot: the timestamp, voltage, current and
\* status block it reads are those of one published sample, never a mixture
\* of two consecutive samples.
C14_AtomicSnapshot ==
    snap.taken
        => /\ snap.got = snap.last
           /\ snap.got.voltage = snap.got.block.Voltage
           /\ snap.got.current = snap.got.block.Current

\* the worker thread is running or has run
C15_Started == mstate \in {"running", "releasing", "released"}
\* this step records the start instant or starts the worker thread
C15_Starting == worker_start' # worker_start \/ (wpc' = "loop" /\ wpc # "loop")

\* C15 as stated: __enter__ performs exactly one synchronous _refresh on
\* the caller's thread, and records the start instant and starts the worker
\* only after that read has succeeded.
C15_OneRefresh ==
    /\ [](C15_Started => refreshes = 1)
    /\ [][C15_Starting /\ mstate = "entering"
            => /\ C4_FgOk /\ refreshes' = 1
               /\ worker_start' = now /\ wpc' = "loop"]_vars

\* C15 amended: __enter__ performs exactly two synchronous _refresh calls
\* on the caller's thread, one before the log is prepared and one after the
\* liveness flag is set, and it records the start instant and starts the
\* worker in the step in which the second one succeeds, never before.
C15_TwoRefreshes ==
    /\ [](C15_Started => refreshes = 2)
    /\ [](mstate = "entering" => wpc # "loop" /\ refreshes <= 1)
    /\ [][C15_Starting /\ mstate = "entering"
            => /\ C4_FgOk /\ fcall.ctx = "enter2" /\ refreshes' = 2
               /\ worker_start' = now /\ wpc' = "loop"
               /\ mstate' = "running"]_vars

\* the worker was started after two refreshes, the second of which needed
\* more than one attempt
C15_Witness ==
    /\ mstate = "running" /\ refreshes = 2 /\ wpc = "loop" /\ index = 0
    /\ fcall.ctx = "enter2" /\ fattempt > 1 /\ worker_start = now

\* C16: Stopped is terminal: once __exit__ of a monitor has returned,
\* nothing done with that monitor brings it back to Running (a worker
\* thread polling with alive true).
C16_StoppedTerminal ==
    stopped => ~(alive /\ wpc \in {"loop", "acq", "rd", "sleep"})

\* C17: cancellation is cooperative and terminates: when every serial
\* read returns, a release that was requested returns; once the liveness
\* flag is cleared the worker begins no further loop iteration, so that it
\* completes at most the one in progress, and a transaction it has on the
\* link ends only by its own read returning.
C17_Cooperative ==
    /\ (mstate = "releasing") ~> (mstate = "released")
    /\ [][mstate = "releasing" => ~(wpc = "loop" /\ wpc' = "acq")]_vars
    /\ [][mstate = "releasing" /\ iters' # iters
            => wpc = "rd" /\ iters' = iters + 1 /\ wpc' \in {"sleep", "loop"}]_vars
    /\ [][mstate = "releasing" /\ (\E q \in wire : q.by = "bg")
            => \/ UNCHANGED <<wire, wpc>>
               \/ wpc = "rd" /\ wpc' # "rd" /\ serial_lock = "bg"
                    /\ serial_lock' = "free"]_vars
    /\ [](mstate = "released" => wpc \in {"done", "crashed"})

\* release was requested while the worker has a transaction on the link
C17_Witness ==
    /\ mstate = "releasing" /\ ~alive /\ fpc = "join"
    /\ wpc = "rd" /\ wattempt > 1 /\ \E q \in wire : q.by = "bg"

\* a _refresh attempt of the worker, of the foreground, read a reply that
\* is not intact
C18_WorkerBad == wpc = "rd" /\ Pending("bg").reply.kind \in BadKinds
C18_FgBad ==
    /\ fpc = "rd" /\ fcall.ctx \in {"enter1", "enter2"}
    /\ Pending("fg").reply.kind \in BadKinds

\* C18: a status-block read attempt that fails checksum validation leaves
\* the published sample as it was (status block, timestamp, voltage and
\* current of the last successful read) and appends no log record.
C18_FailedAttemptKeeps ==
    /\ [][C18_WorkerBad /\ wpc' # "rd"
            => /\ status_block' = status_block /\ timestamp' = timestamp
               /\ voltage' = voltage /\ current' = current
               /\ file' = file
               /\ wpc' \in {"acq", "crashed"}]_vars
    /\ [][C18_FgBad /\ fpc' # "rd"
            => /\ status_block' = status_block /\ timestamp' = timestamp
               /\ voltage' = voltage /\ current' = current
               /\ file' = file]_vars

\* after a sample was published and logged, a later attempt failed and the
\* sample is still the earlier one
C18_Witness ==
    /\ wpc = "acq" /\ wattempt = 2 /\ iters >= 1 /\ file.rows = iters
    /\ voltage = 3000 /\ current = 9000 /\ status_block.Voltage = 3000
    /\ timestamp < now

\* C19: when __enter__ of the monitor fails (a _refresh inside it gives up
\* and raises), the monitor is left not running: alive is false and no
\* worker thread has been started.
C19_FailedStartIdle ==
    mstate = "failed" => ~alive /\ wpc \notin {"loop", "acq", "rd", "sleep"}

\* C20: every response a transaction accepts is the device's response to
\* the request of that same transaction, also after an earlier transaction
\* timed out and its response came late: the read of an accepted
\* transaction found no bytes left over from an earlier request, and what
\* it decoded was the reply to its own request.
C20_OwnResponse ==
    [][fpc = "rd" /\ fpc' # "rd" /\ fresult' = "ok"
         => /\ rx = <<>>
            /\ Pending("fg").reply.kind = "ok"
            /\ Received("fg") = ReplyBytes[OpOf(fcall)][Pending("fg").reply]
            /\ fcall.fn = "read" /\ fcall.address = REG_VOLTAGE
                  => fvalue' = Pending("fg").reply.val]_vars

====
